---- MODULE Spec2Model ----
(***************************************************************************)
(* Model of src/project/src/App.tsx: the work-hour tracker's entry ledger. *)
(* The React component App keeps the ledger in the state hook `entries`,   *)
(* loads it from localStorage['timeEntries'] in the useState initializer,  *)
(* writes it back in a useEffect keyed on [entries], appends in            *)
(* handleSubmit and removes in deleteEntry.                                *)
(*                                                                         *)
(* JavaScript values are modelled by what the operations do to them:       *)
(*   numbers  : [t |-> "num", v |-> n], NaN : [t |-> "nan"], null          *)
(*   texts    : sequences of one-character strings                         *)
(*   the blob : a record naming the JSON value the stored text denotes     *)
(* Decimal fractions, exponents and Infinity are outside the alphabet of   *)
(* the texts, so floating-point rounding is not part of the model.         *)
(***************************************************************************)
EXTENDS Integers, Sequences, FiniteSets, TLC

\* ---- bounds of the model ------------------------------------------------
MaxEntries == 2
MaxClock == 1
MsPerDay == 2

\* ---- JavaScript numbers -------------------------------------------------
Num(n) == [t |-> "num", v |-> n]
NaN == [t |-> "nan", v |-> 0]
Null == [t |-> "null", v |-> 0]

\* ToNumber: null converts to 0, NaN stays NaN
ToNumber(x) == IF x.t = "null" THEN Num(0) ELSE x

\* a + b on numbers (and null), as in the reducers of lines 52-53
Add(a, b) ==
  LET x == ToNumber(a)
      y == ToNumber(b)
  IN IF x.t = "nan" \/ y.t = "nan" THEN NaN ELSE Num(x.v + y.v)

\* a * b, as in line 33
Mul(a, b) ==
  LET x == ToNumber(a)
      y == ToNumber(b)
  IN IF x.t = "nan" \/ y.t = "nan" THEN NaN ELSE Num(x.v * y.v)

\* ---- parseFloat ---------------------------------------------------------
Digit == {"0", "1", "2", "3", "4", "5", "6", "7", "8", "9"}

DigitVal(c) ==
  CASE c = "0" -> 0 [] c = "1" -> 1 [] c = "2" -> 2 [] c = "3" -> 3
    [] c = "4" -> 4 [] c = "5" -> 5 [] c = "6" -> 6 [] c = "7" -> 7
    [] c = "8" -> 8 [] c = "9" -> 9

RECURSIVE ParseDigits(_, _, _)
\* the longest run of digits of s from position i on: where it ends, its value
ParseDigits(s, i, acc) ==
  IF i > Len(s) \/ s[i] \notin Digit
  THEN [next |-> i, val |-> acc]
  ELSE ParseDigits(s, i + 1, 10 * acc + DigitVal(s[i]))

\* parseFloat(text): optional sign, then the longest numeric prefix; NaN when
\* there is none; whatever follows the prefix is ignored
ParseFloat(s) ==
  LET signed == Len(s) >= 1 /\ s[1] \in {"-", "+"}
      start == IF signed THEN 2 ELSE 1
      r == ParseDigits(s, start, 0)
  IN IF r.next = start THEN NaN
     ELSE IF signed /\ s[1] = "-" THEN Num(0 - r.val) ELSE Num(r.val)

\* ---- inputs of the form -------------------------------------------------
NameTexts == {"Acme"}
HoursTexts == {<<"4">>, <<"-", "2", "h">>}
WageTexts == {<<"1", "0", "0", "0">>}
Views == {"list", "graph", "calendar"}

\* Date.now().toString()
IdOf(t) == ToString(t)
\* new Date().toISOString().split('T')[0] : the calendar day of the clock
ISODate(t) == ToString(t \div MsPerDay)

AllIds == {IdOf(t) : t \in 0..MaxClock}

\* ---- JSON ---------------------------------------------------------------
\* JSON.stringify of a number: NaN is written as null
JsonNumber(x) == IF x.t = "nan" THEN Null ELSE x

JsonEntry(e) ==
  [id |-> e.id, date |-> e.date, companyName |-> e.companyName,
   hours |-> JsonNumber(e.hours), hourlyWage |-> JsonNumber(e.hourlyWage),
   totalIncome |-> JsonNumber(e.totalIncome)]

\* JSON.stringify(entries)
Stringify(es) == [kind |-> "array", items |-> [i \in 1..Len(es) |-> JsonEntry(es[i])]]

\* contents of the storage key the program did not write itself
AbsentBlob == [kind |-> "absent", items |-> <<>>]
EmptyBlob == [kind |-> "empty", items |-> <<>>]
GarbageBlob == [kind |-> "garbage", items |-> <<>>]
ObjectBlob == [kind |-> "object", items |-> <<>>]
ForeignBlobs == {AbsentBlob, EmptyBlob, GarbageBlob, ObjectBlob}

VARIABLES
  storage,      \* localStorage['timeEntries']
  entries,      \* the state hook's current value (what setEntries last set)
  rendered,     \* the entries value the last render's closures captured
  companyName,  \* form field
  hours,        \* form field (text)
  hourlyWage,   \* form field (text)
  activeView,
  pc,           \* "load" | "dirty" | "effect" | "idle" | "crashed"
  depsChanged,  \* the [entries] dependency changed since the effect last ran
  now,          \* Date.now()
  error         \* what was thrown, "none" if nothing

vars == <<storage, entries, rendered, companyName, hours, hourlyWage,
          activeView, pc, depsChanged, now, error>>

\* ---- aggregates (lines 52-53) -------------------------------------------
RECURSIVE ReduceIncome(_, _, _)
ReduceIncome(es, i, acc) ==
  IF i > Len(es) THEN acc ELSE ReduceIncome(es, i + 1, Add(acc, es[i].totalIncome))

RECURSIVE ReduceHours(_, _, _)
ReduceHours(es, i, acc) ==
  IF i > Len(es) THEN acc ELSE ReduceHours(es, i + 1, Add(acc, es[i].hours))

totalIncome == ReduceIncome(rendered, 1, Num(0))

totalHoursOverWage ==
  LET wages == [i \in 1..Len(rendered) |-> [rendered[i] EXCEPT !.hours = rendered[i].hourlyWage]]
  IN ReduceHours(wages, 1, Num(0))

totalHours == ReduceHours(rendered, 1, Num(0))

\* ---- construction (lines 18-21) -----------------------------------------
\* saved ? JSON.parse(saved) : []
\* what the initializer does with the stored text
Initializer(blob) ==
  CASE blob.kind \in {"absent", "empty"} -> [throws |-> FALSE, isArray |-> TRUE, value |-> <<>>]
    [] blob.kind = "garbage" -> [throws |-> TRUE, isArray |-> FALSE, value |-> <<>>]
    [] blob.kind = "object" -> [throws |-> FALSE, isArray |-> FALSE, value |-> <<>>]
    [] blob.kind = "array" -> [throws |-> FALSE, isArray |-> TRUE, value |-> blob.items]

\* entry.totalIncome.toFixed(0) in the list (line 174) and in the calendar
\* (line 228) throws on a totalIncome that is null
JsxThrows(es, view) ==
  /\ view \in {"list", "calendar"}
  /\ \E i \in 1..Len(es) : es[i].totalIncome.t = "null"

Init ==
  /\ storage \in ForeignBlobs
  /\ entries = <<>>
  /\ rendered = <<>>
  /\ companyName = ""
  /\ hours = <<>>
  /\ hourlyWage = <<>>
  /\ activeView = "list"
  /\ pc = "load"
  /\ depsChanged = FALSE
  /\ now \in 0..MaxClock
  /\ error = "none"

\* the first call of App(): the initializer, the aggregates, the JSX; when the
\* JSX throws, entries is the value the initializer had produced
Mount ==
  /\ pc = "load"
  /\ LET r == Initializer(storage) IN
       /\ entries' = r.value
       /\ rendered' = r.value
       /\ IF r.throws
          THEN pc' = "crashed" /\ error' = "SyntaxError: JSON.parse" /\ depsChanged' = FALSE
          ELSE IF ~r.isArray
          THEN pc' = "crashed" /\ error' = "TypeError: entries.reduce" /\ depsChanged' = FALSE
          ELSE IF JsxThrows(r.value, activeView)
          THEN pc' = "crashed" /\ error' = "TypeError: toFixed" /\ depsChanged' = FALSE
          ELSE pc' = "effect" /\ error' = "none" /\ depsChanged' = TRUE
  /\ UNCHANGED <<storage, companyName, hours, hourlyWage, activeView, now>>

\* a re-render after a state update: the closures capture the current state
Render ==
  /\ pc = "dirty"
  /\ rendered' = entries
  /\ IF JsxThrows(entries, activeView)
     THEN pc' = "crashed" /\ error' = "TypeError: toFixed"
     ELSE pc' = (IF depsChanged THEN "effect" ELSE "idle") /\ error' = error
  /\ UNCHANGED <<storage, entries, companyName, hours, hourlyWage, activeView,
                 depsChanged, now>>

\* useEffect(..., [entries]) (lines 27-29)
PersistEffectSkipped ==
  /\ pc = "effect"
  /\ pc' = "idle"
  /\ depsChanged' = FALSE
  /\ UNCHANGED <<storage, entries, rendered, companyName, hours, hourlyWage,
                 activeView, now, error>>

PersistEffect ==
  /\ pc = "effect"
  /\ storage' = Stringify(rendered)
  /\ pc' = "idle"
  /\ depsChanged' = FALSE
  /\ UNCHANGED <<entries, rendered, companyName, hours, hourlyWage,
                 activeView, now, error>>

\* ---- handlers -----------------------------------------------------------
\* handleSubmit with input validation, which the source does not have
handleSubmitValidating ==
  /\ Len(rendered) < MaxEntries
  /\ LET h == ParseFloat(hours)
         w == ParseFloat(hourlyWage)
         newEntry == [id |-> IdOf(now), date |-> ISODate(now),
                      companyName |-> companyName, hours |-> h,
                      hourlyWage |-> w, totalIncome |-> Mul(h, w)]
     IN entries' = IF h.t = "nan" \/ w.t = "nan" THEN rendered
                   ELSE Append(rendered, newEntry)
  /\ companyName' = ""
  /\ hours' = <<>>
  /\ hourlyWage' = <<>>
  /\ pc' = "dirty"
  /\ depsChanged' = TRUE
  /\ UNCHANGED <<storage, rendered, activeView, now, error>>

\* handleSubmit (lines 31-46); `entries` in the source is the closure's value
handleSubmit ==
  /\ Len(rendered) < MaxEntries
  /\ LET newTotalIncome == Mul(ParseFloat(hours), ParseFloat(hourlyWage))
         newEntry == [id |-> IdOf(now), date |-> ISODate(now),
                      companyName |-> companyName, hours |-> ParseFloat(hours),
                      hourlyWage |-> ParseFloat(hourlyWage),
                      totalIncome |-> newTotalIncome]
     IN entries' = Append(rendered, newEntry)
  /\ companyName' = ""
  /\ hours' = <<>>
  /\ hourlyWage' = <<>>
  /\ pc' = "dirty"
  /\ depsChanged' = TRUE
  /\ UNCHANGED <<storage, rendered, activeView, now, error>>

\* entries.filter(entry => entry.id !== id)
RECURSIVE Filter(_, _)
Filter(es, id) ==
  IF es = <<>> THEN <<>>
  ELSE IF Head(es).id # id THEN <<Head(es)>> \o Filter(Tail(es), id)
  ELSE Filter(Tail(es), id)

\* entries.splice(entries.findIndex(...), 1): the first match only, and the
\* last entry when nothing matches (findIndex gives -1)
RECURSIVE RemoveFirst(_, _)
RemoveFirst(es, id) ==
  IF es = <<>> THEN <<>>
  ELSE IF Head(es).id = id THEN Tail(es)
  ELSE <<Head(es)>> \o RemoveFirst(Tail(es), id)

deleteEntrySplice(id) ==
  /\ entries' = IF \E i \in 1..Len(rendered) : rendered[i].id = id
                THEN RemoveFirst(rendered, id)
                ELSE SubSeq(rendered, 1, Len(rendered) - 1)
  /\ pc' = "dirty"
  /\ depsChanged' = TRUE
  /\ UNCHANGED <<storage, rendered, companyName, hours, hourlyWage,
                 activeView, now, error>>

\* deleteEntry (lines 48-50)
deleteEntry(id) ==
  /\ entries' = Filter(rendered, id)
  /\ pc' = "dirty"
  /\ depsChanged' = TRUE
  /\ UNCHANGED <<storage, rendered, companyName, hours, hourlyWage,
                 activeView, now, error>>

\* onChange of the three inputs (lines 79, 92, 107)
ChangeCompanyName ==
  /\ pc = "idle"
  /\ \E t \in NameTexts : t # companyName /\ companyName' = t
  /\ pc' = "dirty"
  /\ UNCHANGED <<storage, entries, rendered, hours, hourlyWage, activeView,
                 depsChanged, now, error>>

ChangeHours ==
  /\ pc = "idle"
  /\ \E t \in HoursTexts : t # hours /\ hours' = t
  /\ pc' = "dirty"
  /\ UNCHANGED <<storage, entries, rendered, companyName, hourlyWage, activeView,
                 depsChanged, now, error>>

ChangeHourlyWage ==
  /\ pc = "idle"
  /\ \E t \in WageTexts : t # hourlyWage /\ hourlyWage' = t
  /\ pc' = "dirty"
  /\ UNCHANGED <<storage, entries, rendered, companyName, hours, activeView,
                 depsChanged, now, error>>

\* the three view buttons (lines 138, 146, 154)
SetActiveView ==
  /\ pc = "idle"
  /\ \E v \in Views : v # activeView /\ activeView' = v
  /\ pc' = "dirty"
  /\ UNCHANGED <<storage, entries, rendered, companyName, hours, hourlyWage,
                 depsChanged, now, error>>

\* the form's submit event, one event at a time
SubmitForm == pc = "idle" /\ handleSubmit

\* a click on an entry's Delete button, or remove(id) of an id not listed
ClickDelete == pc = "idle" /\ \E id \in AllIds : deleteEntry(id)

\* the clock advances
Tick ==
  /\ pc = "idle"
  /\ now < MaxClock
  /\ now' = now + 1
  /\ UNCHANGED <<storage, entries, rendered, companyName, hours, hourlyWage,
                 activeView, pc, depsChanged, error>>

\* the page is reloaded: the in-memory state is discarded, the storage stays
Reload ==
  /\ pc \in {"idle", "crashed"}
  /\ pc' = "load"
  /\ entries' = <<>>
  /\ rendered' = <<>>
  /\ companyName' = ""
  /\ hours' = <<>>
  /\ hourlyWage' = <<>>
  /\ activeView' = "list"
  /\ depsChanged' = FALSE
  /\ error' = "none"
  /\ UNCHANGED <<storage, now>>

Next ==
  \/ Mount
  \/ Render
  \/ PersistEffect
  \/ SubmitForm
  \/ ClickDelete
  \/ ChangeCompanyName
  \/ ChangeHours
  \/ ChangeHourlyWage
  \/ SetActiveView
  \/ Tick
  \/ Reload

Spec == Init /\ [][Next]_vars

\* ---- events dispatched before React has re-rendered ---------------------
\* a second submit or delete handled while the update of the first is pending:
\* the handler that runs is the one of the last render
SubmitFormBatched == pc = "dirty" /\ depsChanged /\ handleSubmit

ClickDeleteBatched == pc = "dirty" /\ depsChanged /\ \E id \in AllIds : deleteEntry(id)

NextBatched ==
  \/ Next
  \/ SubmitFormBatched
  \/ ClickDeleteBatched

SpecBatched == Init /\ [][NextBatched]_vars

\* ---- properties ---------------------------------------------------------
NoEntryWithId(es, id) == \A i \in 1..Len(es) : es[i].id # id

IsNaN(x) == x.t = "nan"

\* the sum of a field over a list, taken from the last entry backwards
RECURSIVE SumHoursBack(_, _)
SumHoursBack(es, n) ==
  IF n = 0 THEN Num(0) ELSE Add(es[n].hours, SumHoursBack(es, n - 1))

RECURSIVE SumIncomeBack(_, _)
SumIncomeBack(es, n) ==
  IF n = 0 THEN Num(0) ELSE Add(es[n].totalIncome, SumIncomeBack(es, n - 1))

\* C1: in every reachable state all entries of the ledger have pairwise
\* distinct ids, also for appends made within the same clock tick.
C1_IdsDistinct ==
  \A i, j \in 1..Len(entries) : i # j => entries[i].id # entries[j].id

\* C2: after deleteEntry(id) the list holds no entry with that id, and when
\* no entry had that id the list after the call is the list before it.
C2_RemoveRemovesId ==
  [][\A id \in AllIds :
       (pc = "idle" /\ deleteEntry(id)) =>
         /\ NoEntryWithId(entries', id)
         /\ (NoEntryWithId(entries, id) => entries' = entries)]_vars

\* a delete has just removed one of two entries and kept the other
C2_Witness ==
  /\ pc = "dirty"
  /\ depsChanged
  /\ Len(rendered) = 2
  /\ Len(entries) = 1
  /\ rendered[1].id # rendered[2].id

\* C3: construction never raises, whatever the storage key holds: neither
\* the initializer nor the first computation of the aggregates throws.
C3_ConstructionNeverRaises ==
  error \notin {"SyntaxError: JSON.parse", "TypeError: entries.reduce"}

\* C4: whenever the ledger is quiescent (the persistence effect has run for
\* the latest entries value, and the next event can be handled) the stored
\* blob is the serialization of the whole in-memory sequence.
C4_PersistedWhenIdle ==
  pc = "idle" => (storage = Stringify(entries) /\ rendered = entries /\ ~depsChanged)

\* an append made at the last clock value has been rendered and written back
C4_Witness ==
  /\ pc = "idle"
  /\ Len(entries) = 1
  /\ entries[1].id = IdOf(MaxClock)
  /\ storage.kind = "array"
  /\ Len(storage.items) = 1
  /\ storage.items[1].id = IdOf(MaxClock)
  /\ storage.items[1].hours = Num(4)

\* C5: both aggregates are 0 on an empty ledger, are the sums over exactly
\* the entries in the list, and an append adds the parsed hours argument to
\* totalHours and hours * hourlyWage to totalIncome.
C5_AggregatesAreSums ==
  /\ [](Len(rendered) = 0 => (totalHours = Num(0) /\ totalIncome = Num(0)))
  /\ [](/\ totalHours = SumHoursBack(rendered, Len(rendered))
        /\ totalIncome = SumIncomeBack(rendered, Len(rendered)))
  /\ [][(pc = "idle" /\ handleSubmit) =>
          /\ ReduceHours(entries', 1, Num(0)) = Add(totalHours, ParseFloat(hours))
          /\ ReduceIncome(entries', 1, Num(0)) =
               Add(totalIncome, Mul(ParseFloat(hours), ParseFloat(hourlyWage)))]_vars

\* two appends of 4 hours at 1000 have been rendered: 8 hours, 8000
C5_Witness ==
  /\ pc = "idle"
  /\ Len(rendered) = 2
  /\ rendered[1].totalIncome = Num(4000)
  /\ totalHours = Num(8)
  /\ totalIncome = Num(8000)

\* C6: persist then reload is the identity: constructing the ledger again
\* from the blob written for the current entries yields the same entries.
C6_RoundTrip ==
  pc = "idle" =>
    LET r == Initializer(storage)
    IN ~r.throws /\ r.isArray /\ r.value = entries

\* C7: every entry of the ledger has totalIncome equal to hours * hourlyWage
\* in every reachable state, reloads included.
C7_IncomeIsProduct ==
  \A i \in 1..Len(entries) :
    entries[i].totalIncome = Mul(entries[i].hours, entries[i].hourlyWage)

C9_RemoveOnlyFirst ==
  [][\A id \in AllIds :
       (pc = "idle" /\ deleteEntry(id)) => Len(entries') >= Len(entries) - 1]_vars

====
